---- MODULE Spec2Model ----
(***************************************************************************)
(* The Bitwyre websocket market-making bot (example_ws_python).            *)
(*                                                                         *)
(* Three specifications share the variables and the handlers:              *)
(*                                                                         *)
(*   Spec      the process from its start: the two handshakes of __init__, *)
(*             then the duty cycle of main (randomize_order,               *)
(*             update_orders, random_cancel) with send_msg as it is coded. *)
(*                                                                         *)
(*   SpecBook  the constructed BitwyreWSBot object, its methods            *)
(*             create_order, update_orders, random_cancel and cancel_order *)
(*             called in any order, each RPC returning a value of the type *)
(*             send_msg declares, (bool, dict).  It exercises the order    *)
(*             book, which under Spec stays empty (see BookStaysEmpty).    *)
(*                                                                         *)
(*   SpecCycle the duty cycle of main on the constructed object, with an   *)
(*             exchange that answers every status query for the order      *)
(*             queried with a status of CLOSED, and the fairness of the    *)
(*             loop of cli().                                              *)
(*                                                                         *)
(* The websocket library and the exchange are the environment: what        *)
(* ws.connect and ws.send do, and what the exchange replies, are drawn     *)
(* from small sets.                                                        *)
(***************************************************************************)
EXTENDS Integers, Sequences, FiniteSets, TLC

----------------------------------------------------------------------------
(* Bounds of the model.                                                    *)

\* Orders the exchange accepts (order ids it assigns) in one run.
MaxOrders == 2
\* Duty cycles of main followed in one run of Spec.
MaxCycles == 4
\* Decimal places the numbers of the model carry: a price or a quantity is
\* an integer count of units of 10^-Digits.
Digits == 3

----------------------------------------------------------------------------
(* config.py                                                               *)

Buy == 1
Sell == 2

New == 0
PartiallyFilled == 1
Filled == 2
DoneForToday == 3
Cancelled == 4
Replaced == 5
PendingCancel == 6
Stopped == 7
Rejected == 8
Suspended == 9
PendingNew == 10
Calculated == 11
Expired == 12
AcceptedForBidding == 13
PendingReplace == 14
PendingExpire == 15
PartialCancel == 16
PartialCancelTooBig == 17
PendingPartialCancel == 18
PendingSuspend == 19

\* class OrderStatus: every status code.
OrderStatus ==
    { New, PartiallyFilled, Filled, DoneForToday, Cancelled, Replaced,
      PendingCancel, Stopped, Rejected, Suspended, PendingNew, Calculated,
      Expired, AcceptedForBidding, PendingReplace, PendingExpire,
      PartialCancel, PartialCancelTooBig, PendingPartialCancel,
      PendingSuspend }

\* self.order_sides = [side.value for side in OrderSide]
order_sides == { Buy, Sell }

\* self.closed_status, the list __init__ builds (Stopped is listed twice; the
\* list is only used for membership tests).
closed_status ==
    { DoneForToday, Cancelled, Replaced, Stopped, Rejected, Suspended,
      Expired, Stopped }

\* The literal list create_order tests the reply's status against.
create_open_status == { 0, 1, 11, 13 }

----------------------------------------------------------------------------
(* The partition of the statuses the specification states (section 3).     *)

OPEN ==
    { New, PartiallyFilled, PendingNew, Calculated, AcceptedForBidding,
      PendingReplace, PendingCancel, PendingPartialCancel, PendingExpire,
      PendingSuspend }

CLOSED ==
    { DoneForToday, Filled, Cancelled, Replaced, Stopped, Rejected,
      Suspended, Expired, PartialCancel, PartialCancelTooBig }

----------------------------------------------------------------------------
(* State.                                                                  *)

VARIABLES
    pc,               \* where the process is: a handshake, a step of main,
                      \* "idle" (the object waits for a call), "exited",
                      \* "raised" (an exception left the running handler)
    error,            \* the exception that ended the process, or "none"
    exit_status,      \* the status exit() was called with, -1 while running
    ws_control,       \* self.ws_control: "unset", "open", "failed"
    ws_order_status,  \* self.ws_order_status: "unset", "open", "failed"
    handshakes,       \* calls of ws.connect so far
    open_bids,        \* self.open_bids
    open_asks,        \* self.open_asks
    closed_bids,      \* self.closed_bids
    closed_asks,      \* self.closed_asks
    upd,              \* position inside update_orders: "none", "bids", "asks"
    updated_bids,     \* update_orders' updated_bids still to be merged
    updated_asks,     \* update_orders' updated_asks still to be merged
    rpc,              \* the last call of send_msg as coded: command, transport
                      \* outcome, frames written, return value
    calls,            \* the calls of send_msg the last handler step made
    last,             \* the last handler step and what it saw (history)
    closed_seen,      \* ids for which a CLOSED-status reply was merged while
                      \* the order was open (history)
    next_id,          \* the next order id the exchange assigns
    palette,          \* the statuses the exchange reports in this run
    cycles,           \* completed duty cycles of main
    mid_price,        \* self.mid_price
    qty,              \* self.qty
    price_precision,  \* self.price_precision
    qty_precision     \* self.qty_precision

book == << open_bids, open_asks, closed_bids, closed_asks >>

config == << mid_price, qty, price_precision, qty_precision >>

vars ==
    << pc, error, exit_status, ws_control, ws_order_status, handshakes,
       open_bids, open_asks, closed_bids, closed_asks, upd, updated_bids,
       updated_asks, rpc, calls, last, closed_seen,
       next_id, palette, cycles, mid_price, qty, price_precision,
       qty_precision >>

----------------------------------------------------------------------------
(* Values.                                                                 *)

\* An order-state object: only the two fields the bot reads.
Order(id, status) == [ orderid |-> id, ordstatus |-> status ]

NoOrder == Order(-1, -1)

\* Python's None, the value of a call that falls off the end of a function.
None == [ kind |-> "none" ]

\* A pair (success, response) as send_msg returns it.
Pair(success, response) ==
    [ kind |-> "tuple", success |-> success, response |-> response ]

\* The empty payload: in TLA+ the empty list [] and the empty dict {} are the
\* same value, the function with the empty domain.
EmptyPayload == << >>

\* A reply envelope {"result": r}, and a JSON object without that key.
Envelope(r) == [ result |-> r ]
NotAnEnvelope == [ detail |-> "error" ]

\* The order-state object of a status reply before the exchange has said
\* which order it describes (see update_orders).
Deferred == Order(-2, -2)

NoRpc ==
    [ ws |-> "none", cmd |-> "none", payload |-> << >>, first |-> "none",
      second |-> "none", type |-> "none", json |-> FALSE, value |-> << >>,
      frames |-> << >>, reads |-> 0, ret |-> None ]

\* A call of send_msg: the socket, the command, and the order id the caller
\* was given (NoId for a create).
Call(ws, cmd, order_id) == [ ws |-> ws, cmd |-> cmd, order_id |-> order_id ]

NoId == -1

\* A step record: the handler, the side it worked on, whether its RPC
\* succeeded, and the order-state object of the reply.
Step(op, side, success, order) ==
    [ op |-> op, side |-> side, success |-> success, order |-> order ]

NoStep == Step("none", 0, FALSE, NoOrder)

Ids(orders) == { orders[i].orderid : i \in DOMAIN orders }

SeqIds(orders) == [ i \in DOMAIN orders |-> orders[i].orderid ]

OpenIds == Ids(open_bids) \cup Ids(open_asks)

ClosedIds == Ids(closed_bids) \cup Ids(closed_asks)

\* Python's `del s[i]` (1-based here).
RemoveAt(s, i) == [ j \in 1 .. (Len(s) - 1) |-> IF j < i THEN s[j] ELSE s[j + 1] ]

\* Python's `s[i] = x`.
ReplaceAt(s, i, x) == [ s EXCEPT ![i] = x ]

\* max in the place of min.
Max2(a, b) == IF a > b THEN a ELSE b

\* Python's min of two numbers.
Min2(a, b) == IF a < b THEN a ELSE b

----------------------------------------------------------------------------
(* Numbers: prices and quantities.                                         *)

RECURSIVE Pow10(_)
Pow10(n) == IF n <= 0 THEN 1 ELSE 10 * Pow10(n - 1)

\* One, in the units of the model.
Unit == Pow10(Digits)

\* round(number, ndigits) cutting the digits off instead of rounding.
round_down(number, ndigits) ==
    LET step == Pow10(Digits - ndigits)
    IN  (number \div step) * step

\* Python's round(number, ndigits) of a number that is not negative: the
\* nearest multiple of 10^-ndigits, a tie going to the even one.
round(number, ndigits) ==
    LET step == Pow10(Digits - ndigits)
        q == number \div step
        r == number % step
    IN  IF 2 * r < step THEN q * step
        ELSE IF 2 * r > step THEN (q + 1) * step
        ELSE IF q % 2 = 0 THEN q * step
        ELSE (q + 1) * step

\* str(number): the text of a number, its whole part and its decimals.
str(number) == [ whole |-> number \div Unit, decimals |-> number % Unit ]

\* Decimal(text): the number a text denotes.
Decimal(text) == text.whole * Unit + text.decimals

\* decim(num) = Decimal(str(num))
decim(num) == Decimal(str(num))

\* The configuration cli() constructs the bot with: mid_price=30000,
\* qty=0.5, price_precision=2, qty_precision=2.
CliConfig ==
    [ mid_price |-> 30000 * Unit, qty |-> 5 * Pow10(Digits - 1),
      price_precision |-> 2, qty_precision |-> 2 ]

\* The configurations the bot is constructed with in the model: the one of
\* cli(), and two whose price and quantity have more decimals than the
\* precision keeps (1.237 and 0.125 at two decimals; 2.5 at none and 1.237
\* at one).
Configs ==
    { CliConfig,
      [ mid_price |-> 1237 * Pow10(Digits - 3), qty |-> 125 * Pow10(Digits - 3),
        price_precision |-> 2, qty_precision |-> 2 ],
      [ mid_price |-> 25 * Pow10(Digits - 1), qty |-> 1237 * Pow10(Digits - 3),
        price_precision |-> 0, qty_precision |-> 1 ] }

----------------------------------------------------------------------------
(* The environment: the exchange and the websocket library.                *)

\* The statuses the exchange reports in one run: any one or two of them.
Palettes == { { a, b } : a \in OrderStatus, b \in OrderStatus }

\* The order-state objects a create reply can carry: the exchange assigns
\* the next order id (order ids are unique), with any status.
CreateReplies ==
    IF next_id <= MaxOrders
    THEN { Order(next_id, s) : s \in palette }
    ELSE { }

\* The order-state objects a status reply can carry.  The get request sent
\* by order_info has an empty payload, so the reply may describe any order
\* of the account: one the exchange assigned (1 .. next_id - 1) or one this
\* bot never created (0).
RefreshReplies == { Order(id, s) : id \in 0 .. (next_id - 1), s \in palette }

\* What the parsed JSON of a create reply can be.
CreatePayloads == { Envelope(o) : o \in CreateReplies } \cup { NotAnEnvelope }

\* What the call ws.send(params) that send_msg assigns to `response` can
\* hand back: the number of bytes written (what the websocket library's
\* send returns), or a text, which is JSON or not.
WsValues(payloads) ==
    { [ type |-> "int", json |-> FALSE, value |-> EmptyPayload ],
      [ type |-> "str", json |-> FALSE, value |-> EmptyPayload ] }
    \cup { [ type |-> "str", json |-> TRUE, value |-> v ] : v \in payloads }

\* One call of send_msg as the transport sees it: whether the first
\* ws.send raises, whether the second one raises, and what it returns.
WsOutcomes(payloads) ==
    { [ first |-> "raises", second |-> "none",
        returned |-> [ type |-> "none", json |-> FALSE, value |-> EmptyPayload ] ],
      [ first |-> "ok", second |-> "raises",
        returned |-> [ type |-> "none", json |-> FALSE, value |-> EmptyPayload ] ] }
    \cup { [ first |-> "ok", second |-> "ok", returned |-> v ] :
             v \in WsValues(payloads) }

\* json.loads: raises TypeError on a value that is not text and
\* JSONDecodeError on text that is not JSON; otherwise the parsed value.
json_loads(v) ==
    IF v.type # "str" THEN [ raised |-> TRUE, value |-> EmptyPayload ]
    ELSE IF ~v.json THEN [ raised |-> TRUE, value |-> EmptyPayload ]
    ELSE [ raised |-> FALSE, value |-> v.value ]

----------------------------------------------------------------------------
(* BitwyreWSBot.connect                                                    *)

\* connect with the except clause logging and going on instead of exiting.
connect_without_exit(handshake_ok) ==
    IF handshake_ok
    THEN [ ws |-> "open", exited |-> FALSE, status |-> -1 ]
    ELSE [ ws |-> "failed", exited |-> FALSE, status |-> -1 ]

\* connect: ws.connect succeeds and the socket is returned, or it raises and
\* the except clause calls exit(1).
connect(handshake_ok) ==
    IF handshake_ok
    THEN [ ws |-> "open", exited |-> FALSE, status |-> -1 ]
    ELSE [ ws |-> "failed", exited |-> TRUE, status |-> 1 ]

----------------------------------------------------------------------------
(* BitwyreWSBot.send_msg                                                   *)

\* send_msg with the except clause around json.loads logging without
\* returning, so that a reply that does not parse falls off the end too.
send_msg_parse_error_falls_through(cmd, t) ==
    IF t.first = "raises"
    THEN [ ret |-> Pair(FALSE, EmptyPayload), frames |-> << >>,
           reads |-> 0 ]
    ELSE IF t.second = "raises"
    THEN [ ret |-> Pair(FALSE, EmptyPayload), frames |-> << cmd >>,
           reads |-> 0 ]
    ELSE [ ret |-> None, frames |-> << cmd, cmd >>, reads |-> 0 ]

\* send_msg under transport outcome t: the value returned to the caller and
\* the frames written on the socket (both calls of ws.send write params) and
\* the number of replies read (there is no call of ws.recv).  Each except
\* clause returns
\* (success, response) = (False, []); after a successful json.loads the
\* function body ends without a return statement, so the call yields None.
send_msg(cmd, t) ==
    IF t.first = "raises"
    THEN [ ret |-> Pair(FALSE, EmptyPayload), frames |-> << >>,
           reads |-> 0 ]
    ELSE IF t.second = "raises"
    THEN [ ret |-> Pair(FALSE, EmptyPayload), frames |-> << cmd >>,
           reads |-> 0 ]
    ELSE IF json_loads(t.returned).raised
    THEN [ ret |-> Pair(FALSE, EmptyPayload), frames |-> << cmd, cmd >>,
           reads |-> 0 ]
    ELSE [ ret |-> None, frames |-> << cmd, cmd >>, reads |-> 0 ]

\* The values of the type send_msg declares, -> (bool, dict): the failure
\* pair and a success pair around a reply envelope.
DeclaredCreateReturns ==
    { Pair(FALSE, EmptyPayload) }
    \cup { Pair(TRUE, Envelope(o)) : o \in CreateReplies }

----------------------------------------------------------------------------
(* BitwyreWSBot.create_order                                               *)

\* The book as a value.
Book(ob, oa, cb, ca) ==
    [ open_bids |-> ob, open_asks |-> oa, closed_bids |-> cb,
      closed_asks |-> ca ]

TheBook == Book(open_bids, open_asks, closed_bids, closed_asks)

\* The tail of create_order: the reply's order goes to an open list when its
\* status is one of [0, 1, 11, 13], else to a closed list, by the side the
\* caller passed.
classify_new(b, side, result) ==
    IF result.ordstatus \in create_open_status
    THEN IF side = 1
         THEN [ b EXCEPT !.open_bids = Append(@, result) ]
         ELSE IF side = 2
         THEN [ b EXCEPT !.open_asks = Append(@, result) ]
         ELSE b
    ELSE IF side = 1
         THEN [ b EXCEPT !.closed_bids = Append(@, result) ]
         ELSE IF side = 2
         THEN [ b EXCEPT !.closed_asks = Append(@, result) ]
         ELSE b

\* create_order with the `if not success` branch filing the empty reply
\* instead of returning.
create_order_files_failure(b, side, r) ==
    IF r.kind = "none"
    THEN [ raised |-> "TypeError", book |-> b, success |-> FALSE,
           order |-> NoOrder ]
    ELSE IF ~r.success
    THEN [ raised |-> "none", book |-> classify_new(b, side, NoOrder),
           success |-> FALSE, order |-> NoOrder ]
    ELSE IF "result" \notin DOMAIN r.response
    THEN [ raised |-> "KeyError", book |-> b, success |-> TRUE,
           order |-> NoOrder ]
    ELSE [ raised |-> "none",
           book |-> classify_new(b, side, r.response.result),
           success |-> TRUE, order |-> r.response.result ]

\* create_order from the return r of its send_msg call on:
\* `success, result = r` raises TypeError when r is None; a failure returns;
\* result["result"] raises KeyError when the key is missing.
create_order(b, side, r) ==
    IF r.kind = "none"
    THEN [ raised |-> "TypeError", book |-> b, success |-> FALSE,
           order |-> NoOrder ]
    ELSE IF ~r.success
    THEN [ raised |-> "none", book |-> b, success |-> FALSE,
           order |-> NoOrder ]
    ELSE IF "result" \notin DOMAIN r.response
    THEN [ raised |-> "KeyError", book |-> b, success |-> TRUE,
           order |-> NoOrder ]
    ELSE [ raised |-> "none",
           book |-> classify_new(b, side, r.response.result),
           success |-> TRUE, order |-> r.response.result ]

\* The record of one call of send_msg as coded: the command, what the
\* transport did (whether each ws.send raised, the type of the value the
\* second one returned, whether it is JSON text and of what value), the
\* frames written and the value returned to the caller.
RpcOf(ws, cmd, payload, t) ==
    [ ws |-> ws, cmd |-> cmd, payload |-> payload, first |-> t.first,
      second |-> t.second, type |-> t.returned.type,
      json |-> t.returned.json, value |-> t.returned.value,
      frames |-> send_msg(cmd, t).frames, reads |-> send_msg(cmd, t).reads,
      ret |-> send_msg(cmd, t).ret ]

----------------------------------------------------------------------------
(* BitwyreWSBot.order_info and BitwyreWSBot.cancel_order                   *)

\* The payload of the get request order_info(order_id) sends: `payload = ""`,
\* the empty text, whatever the order id.
order_info_payload(order_id) == << >>

\* order_info from the return r of its send_msg call on: the unpacking
\* raises TypeError on None; a failure is handed on; result["result"][0]
\* raises KeyError without the key and IndexError on an empty list.
order_info(r) ==
    IF r.kind = "none"
    THEN [ raised |-> "TypeError", success |-> FALSE, result |-> NoOrder ]
    ELSE IF ~r.success
    THEN [ raised |-> "none", success |-> FALSE, result |-> NoOrder ]
    ELSE IF "result" \notin DOMAIN r.response
    THEN [ raised |-> "KeyError", success |-> TRUE, result |-> NoOrder ]
    ELSE IF Len(r.response.result) = 0
    THEN [ raised |-> "IndexError", success |-> TRUE, result |-> NoOrder ]
    ELSE [ raised |-> "none", success |-> TRUE,
           result |-> r.response.result[1] ]

\* The book without the order of that id in its open lists.
WithoutOpen(b, order_id) ==
    [ b EXCEPT !.open_bids = SelectSeq(@, LAMBDA o : o.orderid # order_id),
               !.open_asks = SelectSeq(@, LAMBDA o : o.orderid # order_id) ]

\* cancel_order deleting the order from the open lists when the cancel RPC
\* succeeded.
cancel_order_removes(b, order_id, r) ==
    IF r.kind = "none"
    THEN [ raised |-> "TypeError", success |-> FALSE, book |-> b ]
    ELSE IF r.success
    THEN [ raised |-> "none", success |-> TRUE,
           book |-> WithoutOpen(b, order_id) ]
    ELSE [ raised |-> "none", success |-> FALSE, book |-> b ]

\* cancel_order from the return r of its send_msg call on: it unpacks the
\* pair and returns it, whether the call succeeded or not.  It touches no
\* list of the book.
cancel_order(b, order_id, r) ==
    IF r.kind = "none"
    THEN [ raised |-> "TypeError", success |-> FALSE, book |-> b ]
    ELSE [ raised |-> "none", success |-> r.success, book |-> b ]

\* The returns of a get or cancel call of send_msg as coded: the reply text,
\* when there is one, is an envelope or not.
CodedReturns(cmd) ==
    { send_msg(cmd, t).ret :
        t \in WsOutcomes({ Envelope(<< Deferred >>), NotAnEnvelope }) }

\* The returns of a get or cancel call by the type send_msg declares.
DeclaredReturns ==
    { Pair(FALSE, EmptyPayload), Pair(TRUE, Envelope(<< Deferred >>)) }

----------------------------------------------------------------------------
(* The merge loops of update_orders                                        *)

\* The first index of `open` whose order has the id `id`, 0 when none has.
IndexOf(open, id) ==
    IF \E i \in DOMAIN open : open[i].orderid = id
    THEN CHOOSE i \in DOMAIN open :
            /\ open[i].orderid = id
            /\ \A j \in 1 .. (i - 1) : open[j].orderid # id
    ELSE 0

\* A merge round that appends a closed order without deleting it from the
\* open list.
merge_without_delete(open, closed, updated_order) ==
    LET index == IndexOf(open, updated_order.orderid)
    IN  IF index = 0
        THEN [ open |-> open, closed |-> closed ]
        ELSE IF updated_order.ordstatus \notin closed_status
        THEN [ open |-> ReplaceAt(open, index, updated_order),
               closed |-> closed ]
        ELSE [ open |-> open, closed |-> Append(closed, updated_order) ]

\* A merge round that inserts an order it does not find in the open list.
merge_with_insert(open, closed, updated_order) ==
    LET index == IndexOf(open, updated_order.orderid)
    IN  IF index = 0
        THEN IF updated_order.ordstatus \notin closed_status
             THEN [ open |-> Append(open, updated_order), closed |-> closed ]
             ELSE [ open |-> open, closed |-> closed ]
        ELSE IF updated_order.ordstatus \notin closed_status
        THEN [ open |-> ReplaceAt(open, index, updated_order),
               closed |-> closed ]
        ELSE [ open |-> RemoveAt(open, index),
               closed |-> Append(closed, updated_order) ]

\* A merge round that deletes the entry and appends the updated order to
\* the end of the open list instead of assigning at the index.
merge_moves_to_end(open, closed, updated_order) ==
    LET index == IndexOf(open, updated_order.orderid)
    IN  IF index = 0
        THEN [ open |-> open, closed |-> closed ]
        ELSE IF updated_order.ordstatus \notin closed_status
        THEN [ open |-> Append(RemoveAt(open, index), updated_order),
               closed |-> closed ]
        ELSE [ open |-> RemoveAt(open, index),
               closed |-> Append(closed, updated_order) ]

\* A merge round that files a closed order it does not find in the open
\* list.
merge_files_unknown(open, closed, updated_order) ==
    LET index == IndexOf(open, updated_order.orderid)
    IN  IF index = 0
        THEN IF updated_order.ordstatus \in closed_status
             THEN [ open |-> open, closed |-> Append(closed, updated_order) ]
             ELSE [ open |-> open, closed |-> closed ]
        ELSE IF updated_order.ordstatus \notin closed_status
        THEN [ open |-> ReplaceAt(open, index, updated_order),
               closed |-> closed ]
        ELSE [ open |-> RemoveAt(open, index),
               closed |-> Append(closed, updated_order) ]

\* One round of a merge loop: the inner for-loop stops at the first entry
\* of `open` with the updated order's id; a status outside closed_status
\* replaces the entry in place, a status in closed_status appends the
\* updated order to `closed` and deletes the entry.  No entry with that id:
\* nothing changes.
merge(open, closed, updated_order) ==
    LET index == IndexOf(open, updated_order.orderid)
    IN  IF index = 0
        THEN [ open |-> open, closed |-> closed ]
        ELSE IF updated_order.ordstatus \notin closed_status
        THEN [ open |-> ReplaceAt(open, index, updated_order),
               closed |-> closed ]
        ELSE [ open |-> RemoveAt(open, index),
               closed |-> Append(closed, updated_order) ]

----------------------------------------------------------------------------
(* Initial states.                                                         *)

\* The process before __init__ has opened a socket.
Init ==
    /\ pc = "connect_control"
    /\ error = "none"
    /\ exit_status = -1
    /\ ws_control = "unset"
    /\ ws_order_status = "unset"
    /\ handshakes = 0
    /\ open_bids = << >>
    /\ open_asks = << >>
    /\ closed_bids = << >>
    /\ closed_asks = << >>
    /\ upd = "none"
    /\ updated_bids = << >>
    /\ updated_asks = << >>
    /\ rpc = NoRpc
    /\ calls = << >>
    /\ last = NoStep
    /\ closed_seen = { }
    /\ next_id = 1
    /\ palette \in Palettes
    /\ cycles = 0
    /\ \E c \in Configs :
         /\ mid_price = c.mid_price
         /\ qty = c.qty
         /\ price_precision = c.price_precision
         /\ qty_precision = c.qty_precision

\* The object when __init__ has returned: both sockets open, the four lists
\* empty.
InitBook ==
    /\ pc = "idle"
    /\ error = "none"
    /\ exit_status = -1
    /\ ws_control = "open"
    /\ ws_order_status = "open"
    /\ handshakes = 2
    /\ open_bids = << >>
    /\ open_asks = << >>
    /\ closed_bids = << >>
    /\ closed_asks = << >>
    /\ upd = "none"
    /\ updated_bids = << >>
    /\ updated_asks = << >>
    /\ rpc = NoRpc
    /\ calls = << >>
    /\ last = NoStep
    /\ closed_seen = { }
    /\ next_id = 1
    /\ palette \in Palettes
    /\ cycles = 0
    /\ mid_price = CliConfig.mid_price
    /\ qty = CliConfig.qty
    /\ price_precision = CliConfig.price_precision
    /\ qty_precision = CliConfig.qty_precision

----------------------------------------------------------------------------
(* __init__: the two handshakes.                                           *)

\* self.ws_control = self.connect(self.control_uri)
ConnectControl ==
    /\ pc = "connect_control"
    /\ \E handshake_ok \in BOOLEAN :
         LET c == connect(handshake_ok)
         IN  /\ ws_control' = c.ws
             /\ handshakes' = handshakes + 1
             /\ pc' = IF c.exited THEN "exited" ELSE "connect_status"
             /\ error' = IF c.exited THEN "SystemExit" ELSE error
             /\ exit_status' = c.status
    /\ last' = Step("connect", 0, ws_control' = "open", NoOrder)
    /\ calls' = << >>
    /\ UNCHANGED << ws_order_status, open_bids, open_asks, closed_bids,
                    closed_asks, upd, updated_bids, updated_asks, rpc,
                    closed_seen, next_id, palette, cycles,
                    config >>

\* self.ws_order_status = self.connect(self.status_uri); then cli() enters
\* `while True: bot.main()`.
ConnectStatus ==
    /\ pc = "connect_status"
    /\ \E handshake_ok \in BOOLEAN :
         LET c == connect(handshake_ok)
         IN  /\ ws_order_status' = c.ws
             /\ handshakes' = handshakes + 1
             /\ pc' = IF c.exited THEN "exited" ELSE "randomize"
             /\ error' = IF c.exited THEN "SystemExit" ELSE error
             /\ exit_status' = c.status
    /\ last' = Step("connect", 0, ws_order_status' = "open", NoOrder)
    /\ calls' = << >>
    /\ UNCHANGED << ws_control, open_bids, open_asks, closed_bids,
                    closed_asks, upd, updated_bids, updated_asks, rpc,
                    closed_seen, next_id, palette, cycles,
                    config >>

----------------------------------------------------------------------------
(* randomize_order and create_order.                                       *)

\* The effect of one call of create_order whose send_msg call returned r:
\* the book it leaves, and where the process goes (an exception ends it).
ApplyCreate(op, side, r, next_pc) ==
    LET res == create_order(TheBook, side, r)
    IN  /\ open_bids' = res.book.open_bids
        /\ open_asks' = res.book.open_asks
        /\ closed_bids' = res.book.closed_bids
        /\ closed_asks' = res.book.closed_asks
        /\ pc' = IF res.raised = "none" THEN next_pc ELSE "raised"
        /\ error' = IF res.raised = "none" THEN error ELSE res.raised
        /\ last' = Step(op, side, res.success, res.order)
        /\ calls' = << Call("control", "create", NoId) >>

\* The exchange has assigned an order id when the reply carries an order.
IdAssigned(payload) == "result" \in DOMAIN payload

\* The arguments randomize_order calls create_order with when no order is
\* open: the side drawn, a limit order, the configured quantity and the
\* configured mid price, each rounded to its precision and given as text.
randomize_order(side) ==
    LET ordtype == 2
        leverage == 1
        price == decim(round(mid_price, price_precision))
        orderqty == decim(round(qty, qty_precision))
    IN  [ side |-> side, ordtype |-> ordtype, orderqty |-> str(orderqty),
          price |-> str(price), leverage |-> leverage ]

\* The payload create_order builds from its arguments (the instrument is a
\* constant of the run).
create_payload(args) ==
    [ side |-> args.side, ordtype |-> args.ordtype,
      orderqty |-> args.orderqty, price |-> args.price,
      leverage |-> args.leverage ]

\* main's first step.  randomize_order draws a side; with no open order it
\* posts at the configured mid price through create_order; with an open
\* order it first calls self.calculate_midprice(), a method the class does
\* not define, which raises AttributeError.
RandomizeOrder ==
    /\ pc = "randomize"
    /\ upd = "none"
    /\ cycles < MaxCycles
    /\ \E side \in order_sides, t \in WsOutcomes(CreatePayloads) :
         IF Len(open_bids \o open_asks) = 0
         THEN /\ ApplyCreate("randomize_order", side,
                             send_msg("create", t).ret, "update")
              /\ rpc' = RpcOf("control", "create",
                              create_payload(randomize_order(side)), t)
              /\ next_id' = IF t.returned.json /\ IdAssigned(t.returned.value)
                            THEN next_id + 1 ELSE next_id
         ELSE /\ pc' = "raised"
              /\ error' = "AttributeError"
              /\ last' = Step("randomize_order", side, FALSE, NoOrder)
              /\ calls' = << >>
              /\ UNCHANGED << open_bids, open_asks, closed_bids, closed_asks,
                              rpc, next_id >>
    /\ mid_price' = mid_price
    /\ UNCHANGED << exit_status, ws_control, ws_order_status, handshakes, upd,
                    updated_bids, updated_asks, closed_seen, palette, cycles,
                    qty, price_precision, qty_precision >>

\* A call of create_order on the constructed object, its RPC returning a
\* value of the declared type.
CreateOrderCall ==
    /\ pc = "idle"
    /\ upd = "none"
    /\ \E side \in order_sides, r \in DeclaredCreateReturns :
         /\ ApplyCreate("create_order", side, r, "idle")
         /\ next_id' = IF r.success THEN next_id + 1 ELSE next_id
    /\ UNCHANGED << exit_status, ws_control, ws_order_status, handshakes, upd,
                    updated_bids, updated_asks, rpc, closed_seen, palette,
                    cycles,
                    config >>

----------------------------------------------------------------------------
(* update_orders.                                                          *)
(*                                                                         *)
(* The two fetch loops are one step: they only call order_info.  Each      *)
(* round of the two merge loops is a step.  updated_bids and updated_asks  *)
(* hold, for every query that succeeded and in the order of the queries,   *)
(* the id that was queried; the order-state object of that reply is drawn  *)
(* when the merge loop reaches it.  Nothing reads a reply before its merge *)
(* round and the exchange's answer does not depend on the book, so drawing *)
(* it late gives the same runs as drawing it in the fetch loop.            *)

\* Where the caller of update_orders goes on when it returns.
AfterUpdate(at) == IF at = "update" THEN "cancel" ELSE "idle"

\* The ids of `ids` whose query succeeded, in order.
Succeeded(ids, infos) ==
    LET indices == SelectSeq([ i \in DOMAIN ids |-> i ],
                             LAMBDA i : infos[i].success)
    IN  [ k \in DOMAIN indices |-> ids[indices[k]] ]

\* The exception of the first call that raised, "none" when none did.
FirstRaised(infos) ==
    IF \E i \in DOMAIN infos : infos[i].raised # "none"
    THEN infos[CHOOSE i \in DOMAIN infos :
                  /\ infos[i].raised # "none"
                  /\ \A j \in 1 .. (i - 1) : infos[j].raised = "none"].raised
    ELSE "none"

\* The calls that were made when one of them raised: those up to the
\* first that raised.
Issued(queries, infos) ==
    SubSeq(queries, 1, CHOOSE i \in DOMAIN infos :
                         /\ infos[i].raised # "none"
                         /\ \A j \in 1 .. (i - 1) : infos[j].raised = "none")

\* The part of the merge still to run.
NextUpd(bids, asks) ==
    IF bids # << >> THEN "bids" ELSE IF asks # << >> THEN "asks" ELSE "none"

\* The fetch loops.  bids_ids and bids_ask are both read from
\* self.open_bids; each id is queried with order_info, a failed query is
\* skipped, the result of a successful one is appended to updated_bids
\* (first loop) or updated_asks (second loop).
UpdateOrdersWith(Returns) ==
    /\ pc \in { "update", "idle" }
    /\ upd = "none"
    /\ LET bids_ids == SeqIds(open_bids)
           bids_ask == SeqIds(open_bids)
           queries == [ i \in DOMAIN (bids_ids \o bids_ask) |->
                          Call("order_status", "get",
                               (bids_ids \o bids_ask)[i]) ]
       IN  \E rb \in [ DOMAIN bids_ids -> Returns ],
              ra \in [ DOMAIN bids_ask -> Returns ] :
             LET ib == [ i \in DOMAIN bids_ids |-> order_info(rb[i]) ]
                 ia == [ i \in DOMAIN bids_ask |-> order_info(ra[i]) ]
                 raised == FirstRaised(ib \o ia)
                 ub == Succeeded(bids_ids, ib)
                 ua == Succeeded(bids_ask, ia)
             IN  /\ IF raised # "none"
                    THEN /\ pc' = "raised"
                         /\ error' = raised
                         /\ calls' = Issued(queries, ib \o ia)
                         /\ UNCHANGED << upd, updated_bids, updated_asks >>
                    ELSE /\ updated_bids' = ub
                         /\ updated_asks' = ua
                         /\ upd' = NextUpd(ub, ua)
                         /\ pc' = IF NextUpd(ub, ua) = "none"
                                  THEN AfterUpdate(pc) ELSE pc
                         /\ error' = error
                         /\ calls' = queries
                 /\ last' = Step("update_orders", 0,
                                 ub # << >> \/ ua # << >>, NoOrder)
    /\ UNCHANGED << exit_status, ws_control, ws_order_status, handshakes,
                    open_bids, open_asks, closed_bids, closed_asks, rpc,
                    closed_seen, next_id, palette, cycles,
                    config >>

\* main's second step, send_msg as coded.
UpdateOrders == UpdateOrdersWith(CodedReturns("get"))

\* A call of update_orders on the constructed object.
UpdateOrdersCall == UpdateOrdersWith(DeclaredReturns)

\* One round of `for updated_order in updated_bids`, the order-state object
\* of the reply being one of Replies.
MergeBidWith(Replies) ==
    /\ upd = "bids"
    /\ updated_bids # << >>
    /\ \E updated_order \in Replies :
         LET m == merge(open_bids, closed_bids, updated_order)
             found == IndexOf(open_bids, updated_order.orderid) # 0
         IN  /\ open_bids' = m.open
             /\ closed_bids' = m.closed
             /\ last' = Step("merge_bid", Buy, TRUE, updated_order)
             /\ calls' = << >>
             /\ closed_seen' =
                  IF found /\ updated_order.ordstatus \in CLOSED
                  THEN closed_seen \cup { updated_order.orderid }
                  ELSE closed_seen
    /\ updated_bids' = Tail(updated_bids)
    /\ upd' = NextUpd(Tail(updated_bids), updated_asks)
    /\ pc' = IF NextUpd(Tail(updated_bids), updated_asks) = "none"
             THEN AfterUpdate(pc) ELSE pc
    /\ UNCHANGED << error, exit_status, ws_control, ws_order_status,
                    handshakes, open_asks, closed_asks, updated_asks, rpc,
                    next_id, palette, cycles,
                    config >>

\* A merge round of the bid loop, the reply describing any order.
MergeBid == MergeBidWith(RefreshReplies)

\* One round of `for updated_order in updated_asks`, the order-state object
\* of the reply being one of Replies.
MergeAskWith(Replies) ==
    /\ upd = "asks"
    /\ updated_asks # << >>
    /\ \E updated_order \in Replies :
         LET m == merge(open_asks, closed_asks, updated_order)
             found == IndexOf(open_asks, updated_order.orderid) # 0
         IN  /\ open_asks' = m.open
             /\ closed_asks' = m.closed
             /\ last' = Step("merge_ask", Sell, TRUE, updated_order)
             /\ calls' = << >>
             /\ closed_seen' =
                  IF found /\ updated_order.ordstatus \in CLOSED
                  THEN closed_seen \cup { updated_order.orderid }
                  ELSE closed_seen
    /\ updated_asks' = Tail(updated_asks)
    /\ upd' = NextUpd(<< >>, Tail(updated_asks))
    /\ pc' = IF NextUpd(<< >>, Tail(updated_asks)) = "none"
             THEN AfterUpdate(pc) ELSE pc
    /\ UNCHANGED << error, exit_status, ws_control, ws_order_status,
                    handshakes, open_bids, closed_bids, updated_bids, rpc,
                    next_id, palette, cycles,
                    config >>

\* A merge round of the ask loop, the reply describing any order.
MergeAsk == MergeAskWith(RefreshReplies)

----------------------------------------------------------------------------
(* random_cancel.                                                          *)

\* random.sample(population, k): k entries of the list at distinct
\* positions, in any order.
Sample(population, k) ==
    { [ i \in 1 .. k |-> population[f[i]] ] :
        f \in { g \in [ 1 .. k -> DOMAIN population ] :
                  \A i, j \in 1 .. k : i # j => g[i] # g[j] } }

\* A selection that takes every open order twice.
SampledOrdersTwice(bids, asks) == { bids \o asks \o bids \o asks }

\* order_tobe_cancelled: sample(self.open_bids, min(0, len(self.open_bids)))
\* + sample(self.open_asks, min(0, len(self.open_asks))), every value the
\* two draws can give.
SampledOrders(bids, asks) ==
    { sb \o sa : sb \in Sample(bids, Min2(0, Len(bids))),
                 sa \in Sample(asks, Min2(0, Len(asks))) }

\* `for order in order_tobe_cancelled: self.cancel_order(...)`, the call for
\* the i-th order returning rs[i]: the book it leaves, the calls of send_msg
\* made, and the exception that ended the loop, "none" when none did.
RECURSIVE cancel_each(_, _, _)
cancel_each(b, orders, rs) ==
    IF orders = << >>
    THEN [ raised |-> "none", book |-> b, calls |-> << >> ]
    ELSE LET order_id == Head(orders).orderid
             c == cancel_order(b, order_id, Head(rs))
             rest == cancel_each(c.book, Tail(orders), Tail(rs))
         IN  IF c.raised # "none"
             THEN [ raised |-> c.raised, book |-> c.book,
                    calls |-> << Call("control", "cancel", order_id) >> ]
             ELSE [ raised |-> rest.raised, book |-> rest.book,
                    calls |-> << Call("control", "cancel", order_id) >>
                                \o rest.calls ]

\* random_cancel: the sample sizes are min(0, len(...)); every sampled order
\* is cancelled with cancel_order.
RandomCancelWith(Returns) ==
    /\ pc \in { "cancel", "idle" }
    /\ upd = "none"
    /\ \E order_tobe_cancelled \in SampledOrders(open_bids, open_asks) :
         \E rs \in [ DOMAIN order_tobe_cancelled -> Returns ] :
           LET res == cancel_each(TheBook, order_tobe_cancelled, rs)
           IN  /\ pc' = IF res.raised # "none" THEN "raised"
                        ELSE IF pc = "cancel" THEN "randomize" ELSE "idle"
               /\ error' = IF res.raised # "none" THEN res.raised ELSE error
               /\ cycles' = IF res.raised = "none" /\ pc = "cancel"
                                /\ cycles < MaxCycles
                            THEN cycles + 1 ELSE cycles
               /\ open_bids' = res.book.open_bids
               /\ open_asks' = res.book.open_asks
               /\ closed_bids' = res.book.closed_bids
               /\ closed_asks' = res.book.closed_asks
               /\ calls' = res.calls
               /\ last' = Step("random_cancel", 0, FALSE, NoOrder)
    /\ UNCHANGED << exit_status, ws_control, ws_order_status, handshakes, upd,
                    updated_bids, updated_asks, rpc, closed_seen, next_id,
                    palette,
                    config >>

\* main's third step, send_msg as coded.
RandomCancel == RandomCancelWith(CodedReturns("cancel"))

\* A call of random_cancel on the constructed object.
RandomCancelCall == RandomCancelWith(DeclaredReturns)

\* A call of cancel_order on the constructed object, for an open order.
CancelOrderCall ==
    /\ pc = "idle"
    /\ upd = "none"
    /\ \E order_id \in OpenIds, r \in DeclaredReturns :
         LET c == cancel_order(TheBook, order_id, r)
         IN  /\ open_bids' = c.book.open_bids
             /\ open_asks' = c.book.open_asks
             /\ closed_bids' = c.book.closed_bids
             /\ closed_asks' = c.book.closed_asks
             /\ calls' = << Call("control", "cancel", order_id) >>
             /\ last' = Step("cancel_order", 0, c.success, NoOrder)
    /\ UNCHANGED << pc, error, exit_status, ws_control, ws_order_status,
                    handshakes, upd, updated_bids, updated_asks, rpc,
                    closed_seen, next_id, palette, cycles,
                    config >>

----------------------------------------------------------------------------
(* The specifications.                                                     *)

\* The process: __init__, then main for ever.  The merge rounds of
\* update_orders need a status reply that succeeded; send_msg as coded
\* yields none (BookStaysEmpty), so they are no steps of this relation.
Next ==
    \/ ConnectControl
    \/ ConnectStatus
    \/ RandomizeOrder
    \/ UpdateOrders
    \/ RandomCancel

Spec == Init /\ [][Next]_vars

\* The constructed object, its methods called in any order.
NextBook ==
    \/ CreateOrderCall
    \/ UpdateOrdersCall
    \/ MergeBid
    \/ MergeAsk
    \/ RandomCancelCall
    \/ CancelOrderCall

SpecBook == InitBook /\ [][NextBook]_vars

----------------------------------------------------------------------------
(* The duty cycle with an exchange that answers every status query.        *)

\* The order-state objects of a status reply that describes the order
\* queried and reports a status of CLOSED.
TerminalReplies(order_id) ==
    { Order(order_id, s) : s \in palette \cap CLOSED }

\* The constructed object as cli() has it when it enters its loop, with an
\* exchange that has a status of CLOSED to report.
InitCycle ==
    /\ pc = "randomize"
    /\ error = "none"
    /\ exit_status = -1
    /\ ws_control = "open"
    /\ ws_order_status = "open"
    /\ handshakes = 2
    /\ open_bids = << >>
    /\ open_asks = << >>
    /\ closed_bids = << >>
    /\ closed_asks = << >>
    /\ upd = "none"
    /\ updated_bids = << >>
    /\ updated_asks = << >>
    /\ rpc = NoRpc
    /\ calls = << >>
    /\ last = NoStep
    /\ closed_seen = { }
    /\ next_id = 1
    /\ palette \in { p \in Palettes : p \cap CLOSED # { } }
    /\ cycles = 0
    /\ mid_price = CliConfig.mid_price
    /\ qty = CliConfig.qty
    /\ price_precision = CliConfig.price_precision
    /\ qty_precision = CliConfig.qty_precision

\* main's first step, the create RPC returning a value of the declared
\* type: with no open order randomize_order posts through create_order,
\* with an open order it raises AttributeError at self.calculate_midprice().
RandomizeOrderCall ==
    /\ pc = "randomize"
    /\ upd = "none"
    /\ \E side \in order_sides, r \in DeclaredCreateReturns :
         IF Len(open_bids \o open_asks) = 0
         THEN /\ ApplyCreate("randomize_order", side, r, "update")
              /\ next_id' = IF r.success THEN next_id + 1 ELSE next_id
         ELSE /\ pc' = "raised"
              /\ error' = "AttributeError"
              /\ last' = Step("randomize_order", side, FALSE, NoOrder)
              /\ calls' = << >>
              /\ UNCHANGED << open_bids, open_asks, closed_bids, closed_asks,
                              next_id >>
    /\ mid_price' = mid_price
    /\ UNCHANGED << exit_status, ws_control, ws_order_status, handshakes, upd,
                    updated_bids, updated_asks, rpc, closed_seen, palette,
                    cycles, qty, price_precision, qty_precision >>

\* main's second step, every status query succeeding.
UpdateOrdersAnswered ==
    /\ pc = "update"
    /\ UpdateOrdersWith({ Pair(TRUE, Envelope(<< Deferred >>)) })

\* The merge rounds, each reply describing the order that was queried, with
\* a status of CLOSED.
MergeBidAnswered == MergeBidWith(TerminalReplies(Head(updated_bids)))

MergeAskAnswered == MergeAskWith(TerminalReplies(Head(updated_asks)))

\* main's third step.
RandomCancelAnswered ==
    /\ pc = "cancel"
    /\ RandomCancelWith(DeclaredReturns)

NextCycle ==
    \/ RandomizeOrderCall
    \/ UpdateOrdersAnswered
    \/ MergeBidAnswered
    \/ MergeAskAnswered
    \/ RandomCancelAnswered

\* cli() runs `while True: bot.main()` in one thread, and every step of
\* main ends: the process takes its next step as long as it has one.
SpecCycle == InitCycle /\ [][NextCycle]_vars /\ WF_vars(NextCycle)

\* Under Spec no order is ever tracked and no merge round is ever pending.
BookStaysEmpty ==
    /\ open_bids = << >>
    /\ open_asks = << >>
    /\ closed_bids = << >>
    /\ closed_asks = << >>
    /\ upd = "none"
    /\ updated_bids = << >>
    /\ updated_asks = << >>

----------------------------------------------------------------------------
(* Properties of the order book (SpecBook).                                *)

\* The order ids of the four lists, one after the other.
AllIds ==
    SeqIds(open_bids) \o SeqIds(open_asks) \o SeqIds(closed_bids)
        \o SeqIds(closed_asks)

IsPrefix(s, t) == Len(s) <= Len(t) /\ \A i \in DOMAIN s : s[i] = t[i]

\* C1: every order id is in at most one of open_bids, open_asks,
\* closed_bids, closed_asks, and at most once in it (the exchange assigning
\* each created order an id of its own).
C1_OrderIdUnique ==
    \A i, j \in DOMAIN AllIds : i # j => AllIds[i] # AllIds[j]

\* C1, its case: a merge round has just moved a bid to closed_bids while
\* another bid is still open.
C1_Witness ==
    /\ last.op = "merge_bid"
    /\ closed_bids # << >>
    /\ closed_bids[Len(closed_bids)] = last.order
    /\ open_bids # << >>

\* C2: closed is absorbing.  Every step leaves closed_bids and closed_asks
\* as they were or appends to them, and puts no id that is in a closed list
\* into an open list.
C2_ClosedAbsorbing ==
    [][ /\ IsPrefix(closed_bids, closed_bids')
        /\ IsPrefix(closed_asks, closed_asks')
        /\ ClosedIds \cap OpenIds' = { } ]_vars

\* C2, its case: a status reply with an OPEN status that names an order in a
\* closed list has been merged, and the order is still closed.
C2_Witness ==
    /\ last.op \in { "merge_bid", "merge_ask" }
    /\ last.order.ordstatus \in OPEN
    /\ last.order.orderid \in ClosedIds

\* C3: after a create reply that succeeded with a status of OPEN, the order
\* is in the open list of its side, in no other list.
C3_OpenStatusCreatedOpen ==
    ( /\ last.op = "create_order"
      /\ last.success
      /\ last.order.ordstatus \in OPEN )
    => /\ last.side = Buy => /\ last.order.orderid \in Ids(open_bids)
                             /\ last.order.orderid \notin Ids(open_asks)
       /\ last.side = Sell => /\ last.order.orderid \in Ids(open_asks)
                              /\ last.order.orderid \notin Ids(open_bids)
       /\ last.order.orderid \notin ClosedIds

\* C4: a merge round whose reply names an order of the open list and
\* carries a status of CLOSED deletes the order from the open list and
\* appends the reply to the closed list of the same side; the open list is
\* one shorter.
C4_ClosedStatusCloses ==
    [][ /\ ( /\ upd = "bids"
             /\ last'.op = "merge_bid"
             /\ last'.order.orderid \in Ids(open_bids)
             /\ last'.order.ordstatus \in CLOSED )
           => /\ last'.order.orderid \notin Ids(open_bids')
              /\ closed_bids' = Append(closed_bids, last'.order)
              /\ Len(open_bids') = Len(open_bids) - 1
        /\ ( /\ upd = "asks"
             /\ last'.op = "merge_ask"
             /\ last'.order.orderid \in Ids(open_asks)
             /\ last'.order.ordstatus \in CLOSED )
           => /\ last'.order.orderid \notin Ids(open_asks')
              /\ closed_asks' = Append(closed_asks, last'.order)
              /\ Len(open_asks') = Len(open_asks) - 1 ]_vars

\* How often the id is in the closed lists.
TimesClosed(id) ==
    Cardinality({ i \in DOMAIN closed_bids : closed_bids[i].orderid = id })
    + Cardinality({ i \in DOMAIN closed_asks : closed_asks[i].orderid = id })

\* C5: removal is idempotent.  Once a reply with a status of CLOSED has
\* been merged for an order of an open list, the order is in a closed list
\* exactly once and in no open list, and every later merge round whose
\* reply names it leaves the four lists as they are.
C5_IdempotentRemoval ==
    [][ /\ \A id \in closed_seen' :
             /\ id \notin OpenIds'
             /\ TimesClosed(id)' = 1
        /\ ( /\ upd \in { "bids", "asks" }
             /\ last'.order.orderid \in closed_seen )
           => book' = book ]_vars

C12_CancelLeavesBook ==
    [][ /\ last'.op \in { "cancel_order", "random_cancel" } => book' = book
        /\ \A id \in OpenIds \ OpenIds' :
             /\ last'.op \in { "merge_bid", "merge_ask" }
             /\ last'.success
             /\ last'.order.orderid = id
             /\ last'.order.ordstatus \in CLOSED ]_vars

\* C12, its case: the cancel RPC for an open order has succeeded and the
\* order is still in an open list.
C12_Witness ==
    /\ last.op = "cancel_order"
    /\ last.success
    /\ calls # << >>
    /\ calls[1].cmd = "cancel"
    /\ calls[1].order_id \in OpenIds

\* C14: in every state of the book, whatever random_cancel selects holds
\* no more orders than are open, no order id twice, only ids of the open
\* lists, and nothing when no order is open.
C14_SampleWithinOpen ==
    \A s \in SampledOrders(open_bids, open_asks) :
        /\ Len(s) <= Len(open_bids) + Len(open_asks)
        /\ \A i, j \in DOMAIN s : i # j => s[i].orderid # s[j].orderid
        /\ Ids(s) \subseteq OpenIds
        /\ OpenIds = { } => s = << >>

\* C14, its case: random_cancel has run on a book with a bid and an ask
\* open.
C14_Witness ==
    /\ last.op = "random_cancel"
    /\ open_bids # << >>
    /\ open_asks # << >>

\* C16: a pass of update_orders queries every order id of open_bids and of
\* open_asks once, and no other; the replies of bid queries are merged into
\* the bid lists and those of ask queries into the ask lists.
C16_EveryOpenOrderQueried ==
    [][ last'.op = "update_orders"
        => /\ Len(calls') = Len(open_bids) + Len(open_asks)
           /\ \A id \in OpenIds :
                Cardinality({ i \in DOMAIN calls' :
                                /\ calls'[i].cmd = "get"
                                /\ calls'[i].order_id = id }) = 1
           /\ \A i \in DOMAIN updated_bids' :
                updated_bids'[i] \in Ids(open_bids)
           /\ \A i \in DOMAIN updated_asks' :
                updated_asks'[i] \in Ids(open_asks) ]_vars

\* C17: random_cancel sends no cancel.  In every state of the book its
\* selection is empty, and a step of random_cancel makes no call of
\* send_msg.
C17_RandomCancelSendsNothing ==
    /\ \A s \in SampledOrders(open_bids, open_asks) : Len(s) = 0
    /\ last.op = "random_cancel" => calls = << >>

\* C17, its case: random_cancel has run with two orders open and has made
\* no call.
C17_Witness ==
    /\ last.op = "random_cancel"
    /\ Len(open_bids) + Len(open_asks) = 2
    /\ calls = << >>

\* C18: a merge round whose reply names an order of the open list and
\* carries a status of OPEN assigns the reply at the index of that order:
\* the order ids of the four lists are in the same places, the other
\* entries are as they were, and a reply equal to the stored order leaves
\* the book as it was.
C18_OpenReplyReplacesInPlace ==
    [][ /\ ( /\ upd = "bids"
             /\ last'.op = "merge_bid"
             /\ last'.order.ordstatus \in OPEN
             /\ last'.order.orderid \in Ids(open_bids) )
           => /\ \E index \in DOMAIN open_bids :
                   /\ open_bids[index].orderid = last'.order.orderid
                   /\ open_bids' = [ open_bids EXCEPT ![index] = last'.order ]
                   /\ open_bids[index] = last'.order => book' = book
              /\ AllIds' = AllIds
              /\ UNCHANGED << open_asks, closed_bids, closed_asks >>
        /\ ( /\ upd = "asks"
             /\ last'.op = "merge_ask"
             /\ last'.order.ordstatus \in OPEN
             /\ last'.order.orderid \in Ids(open_asks) )
           => /\ \E index \in DOMAIN open_asks :
                   /\ open_asks[index].orderid = last'.order.orderid
                   /\ open_asks' = [ open_asks EXCEPT ![index] = last'.order ]
                   /\ open_asks[index] = last'.order => book' = book
              /\ AllIds' = AllIds
              /\ UNCHANGED << open_bids, closed_bids, closed_asks >> ]_vars

\* C18, its case: a reply with a status of OPEN has been merged for the
\* first of two open bids, and it is the first of the two still.
C18_Witness ==
    /\ last.op = "merge_bid"
    /\ last.order.ordstatus \in OPEN
    /\ Len(open_bids) = 2
    /\ open_bids[1] = last.order

\* C19: a merge round whose reply names an order that is in no open list
\* changes none of the four lists and raises nothing, whatever the status.
C19_UnknownOrderIsNoOp ==
    [][ ( /\ upd \in { "bids", "asks" }
          /\ last'.op \in { "merge_bid", "merge_ask" }
          /\ last'.order.orderid \notin OpenIds )
        => /\ book' = book
           /\ error' = "none"
           /\ pc' # "raised" ]_vars

\* C19, its case: a reply with a status of CLOSED for an order this bot
\* never created has been merged while an order was open.
C19_Witness ==
    /\ last.op \in { "merge_bid", "merge_ask" }
    /\ last.order.orderid = 0
    /\ last.order.ordstatus \in closed_status
    /\ OpenIds # { }

\* C21: the get request of order_info(X) names X, and the reply to the
\* query of X changes no entry of the book but that of X: a merge round
\* that changes the book has a reply that describes the order queried.
C21_QueryTouchesOnlyItsOrder ==
    [][ /\ last'.op = "update_orders"
           => \A i \in DOMAIN calls' :
                LET payload == order_info_payload(calls'[i].order_id)
                IN  /\ "order_id" \in DOMAIN payload
                    /\ payload.order_id = calls'[i].order_id
        /\ ( upd = "bids" /\ last'.op = "merge_bid" /\ book' # book )
           => last'.order.orderid = Head(updated_bids)
        /\ ( upd = "asks" /\ last'.op = "merge_ask" /\ book' # book )
           => last'.order.orderid = Head(updated_asks) ]_vars

----------------------------------------------------------------------------
(* Properties of the RPC layer and of the process (Spec).                  *)

\* The last call of send_msg wrote the request, got a text back, and the
\* text is JSON.
ReplyParsed ==
    /\ rpc.cmd # "none"
    /\ rpc.first = "ok"
    /\ rpc.second = "ok"
    /\ rpc.type = "str"
    /\ rpc.json

\* The last call of send_msg failed to write, failed on its second
\* ws.send, or got back something that is not JSON text.
TransportFailed ==
    /\ rpc.cmd # "none"
    /\ \/ rpc.first = "raises"
       \/ rpc.second = "raises"
       \/ rpc.type # "str"
       \/ ~rpc.json

\* C6: when the request was written and the reply parses as an envelope,
\* send_msg returns the pair (True, parsed reply).
C6_SuccessReturnsParsedReply ==
    ( ReplyParsed /\ IdAssigned(rpc.value) )
    => rpc.ret = Pair(TRUE, rpc.value)

C8_MalformedReplyIsFailure ==
    ( ReplyParsed /\ ~IdAssigned(rpc.value) )
    => /\ rpc.ret = Pair(FALSE, EmptyPayload)
       /\ error = "none"
       /\ pc # "raised"

\* C9: once both handshakes have succeeded no step of the duty cycle ends
\* the process: nothing is raised out of main and the process does not
\* exit, whatever the RPCs yield.
C9_DutyCycleNeverStops ==
    ( ws_control = "open" /\ ws_order_status = "open" )
    => /\ pc \notin { "raised", "exited" }
       /\ error = "none"

\* C10: a handshake that fails ends the process at once with a status
\* that is not zero: ws.connect was called once for that session and is
\* not called again, no duty cycle has started or starts, no RPC was sent
\* or is sent.
C10_HandshakeFailureIsFatal ==
    ( ws_control = "failed" \/ ws_order_status = "failed" )
    => /\ pc = "exited"
       /\ exit_status # 0
       /\ exit_status = 1
       /\ handshakes = ( IF ws_control = "failed" THEN 1 ELSE 2 )
       /\ cycles = 0
       /\ rpc = NoRpc
       /\ last.op = "connect"
       /\ book = << << >>, << >>, << >>, << >> >>
       /\ ~ENABLED Next

\* C10, its case: the control session is open, the handshake of the status
\* session has failed and the process has exited.
C10_Witness ==
    /\ ws_control = "open"
    /\ ws_order_status = "failed"
    /\ pc = "exited"

\* `rounded` is a multiple of 10^-ndigits nearest to `number`.
IsRounded(number, ndigits, rounded) ==
    LET step == Pow10(Digits - ndigits)
        distance == IF number < rounded THEN rounded - number
                    ELSE number - rounded
    IN  /\ rounded % step = 0
        /\ 2 * distance <= step

\* C13: with no order in the book, one call of randomize_order makes one
\* call of send_msg, a create on the control session, whose price is the
\* configured mid price and whose quantity is the configured qty, each
\* rounded to its precision and with no spread; the mid price is left as it
\* was.
C13_BootstrapPostsMidPrice ==
    [][ ( /\ last'.op = "randomize_order"
          /\ book = << << >>, << >>, << >>, << >> >> )
        => /\ calls' = << Call("control", "create", NoId) >>
           /\ rpc'.ws = "control"
           /\ rpc'.cmd = "create"
           /\ IsRounded(mid_price, price_precision,
                        Decimal(rpc'.payload.price))
           /\ IsRounded(qty, qty_precision, Decimal(rpc'.payload.orderqty))
           /\ mid_price' = mid_price ]_vars

\* C13, its case: the create has been sent and the rounding has changed
\* both the price and the quantity.
C13_Witness ==
    /\ last.op = "randomize_order"
    /\ rpc.cmd = "create"
    /\ Decimal(rpc.payload.price) # mid_price
    /\ Decimal(rpc.payload.orderqty) # qty

\* C15: a call of send_msg in which nothing raises writes the request once
\* and reads one reply.
C15_OneRequestOneReply ==
    ( rpc.cmd # "none" /\ rpc.first = "ok" /\ rpc.second = "ok" )
    => /\ Len(rpc.frames) = 1
       /\ rpc.reads = 1

----------------------------------------------------------------------------
(* Progress of the duty cycle (SpecCycle).                                 *)

\* C20: with every status query succeeding and the exchange reporting a
\* status of CLOSED for the order queried, an order of open_bids is
\* eventually out of open_bids and in closed_bids, and an order of
\* open_asks is eventually out of open_asks and in closed_asks.
C20_ReportedClosedEventuallyCloses ==
    \A id \in 1 .. MaxOrders :
        /\ ( id \in Ids(open_bids) )
             ~> ( id \notin Ids(open_bids) /\ id \in Ids(closed_bids) )
        /\ ( id \in Ids(open_asks) )
             ~> ( id \notin Ids(open_asks) /\ id \in Ids(closed_asks) )

====
